---- MODULE Spec2Model ----
(***************************************************************************)
(* Model of the relay / provider-failover core of Code Switch:             *)
(*   - BlacklistService  (services/blacklistservice.go)                    *)
(*   - SettingsService   (blacklist settings in app_settings)              *)
(*   - ProviderRelayService.proxyHandler / forwardRequest                  *)
(*   - Provider model resolution (services/providerservice.go)             *)
(*                                                                         *)
(* Time is an integer clock `now`.  One unit of `now` stands for one hour  *)
(* of wall-clock time; every duration of BlacklistLevelConfig is expressed *)
(* in that unit.  time.Time comparisons (Before / After / Sub) become      *)
(* integer comparisons on these instants.                                  *)
(***************************************************************************)
EXTENDS Integers, Sequences, FiniteSets, TLC

(***************************************************************************)
(* Bounds of the model.                                                    *)
(***************************************************************************)
MaxTime == 6
MaxThreshold == 3
RelayMaxTime == 1
ConcMaxTime == 2
SweepMaxTime == 4
MaxLen == 3
MaxProviders == 2
MaxChunks == 2

(***************************************************************************)
(* BlacklistLevelConfig: one configuration, in hours.  Forgiveness (3h)    *)
(* and the degrade interval (1h) are the defaults; the jump-penalty window *)
(* of 2.5h admits, between whole-hour instants, exactly the gaps <= 2.     *)
(* The dedupe window and the level durations are configured values that    *)
(* keep the order of the defaults (dedupe <= L1 <= L2 <= L3 <= L4 <= L5),  *)
(* short enough for every level to expire inside the explored horizon.     *)
(***************************************************************************)
HourUnits == 1
DedupeWindow == 1
ForgivenessWindow == 3
JumpPenaltyWindow == 2
L1Duration == 1
L2Duration == 1
L3Duration == 1
L4Duration == 2
L5Duration == 2
FallbackDuration == 1
MaxLevel == 5

NULL == -1

Names == {"P1", "P2", "P3"}
Tracked == {"P1"}

VARIABLES
  now,        \* wall clock (time.Now())
  settings,   \* app_settings rows + level config
  bl,         \* provider_blacklist: row per (platform, provider_name)
  providers,  \* the persisted provider list of the client kind
  req,        \* what the relay did for the latest inbound request
  inflight,   \* BlacklistService calls that goroutines are in the middle of
  shadow,     \* the tracked record as it would be had no sweep ever run
              \* (NULL where no such twin is kept)
  obs         \* observation of the BlacklistService calls (not program state)

(***************************************************************************)
(* provider_blacklist row (services/database.go) and its column defaults.  *)
(***************************************************************************)
NoRow ==
  [exists |-> FALSE, failureCount |-> 0, blacklistedAt |-> NULL,
   blacklistedUntil |-> NULL, lastFailureAt |-> NULL, autoRecovered |-> FALSE,
   blacklistLevel |-> 0, lastRecoveredAt |-> NULL, lastDegradeHour |-> 0,
   lastFailureWindowStart |-> NULL]

Uncapped(a, b) == b

Min(a, b) == IF a < b THEN a ELSE b
Max(a, b) == IF a > b THEN a ELSE b

\* getLevelDuration: blacklist duration of a level
getLevelDuration(level) ==
  CASE level = 1 -> L1Duration
    [] level = 2 -> L2Duration
    [] level = 3 -> L3Duration
    [] level = 4 -> L4Duration
    [] level = 5 -> L5Duration
    [] OTHER -> L1Duration

\* the threshold test of both modes (failureCount is the incremented count)
thresholdExceeded(failureCount, failureThreshold) == failureCount > failureThreshold

thresholdReached(failureCount, failureThreshold) == failureCount >= failureThreshold

\* the test of both modes for a record that is blacklisted and unexpired
neverSkipped(blacklistedUntil, t) == FALSE

stillBlacklisted(blacklistedUntil, t) ==
  blacklistedUntil # NULL /\ blacklistedUntil > t

\* recordFailureFixedMode: N strikes, then block for a fixed duration
recordFailureFixedMode(r, fallbackMode, fallbackDuration, failureThreshold, t) ==
  IF fallbackMode = "none" THEN r
  ELSE IF ~r.exists THEN
    [NoRow EXCEPT !.exists = TRUE, !.failureCount = 1, !.lastFailureAt = t]
  ELSE IF stillBlacklisted(r.blacklistedUntil, t) THEN r
  ELSE LET failureCount == r.failureCount + 1 IN
    IF thresholdReached(failureCount, failureThreshold) THEN
      [r EXCEPT !.failureCount = failureCount, !.lastFailureAt = t,
                !.blacklistedAt = t, !.blacklistedUntil = t + fallbackDuration,
                !.autoRecovered = FALSE]
    ELSE
      [r EXCEPT !.failureCount = failureCount, !.lastFailureAt = t]

\* the dedupe test: the call falls inside the window opened by the last
\* counted failure
noDedupeWindow(lastFailureWindowStart, t) == FALSE

inDedupeWindow(lastFailureWindowStart, t) ==
  lastFailureWindowStart # NULL /\ t - lastFailureWindowStart < DedupeWindow

\* the level increase of a threshold crossing (jump penalty or normal)
levelIncreaseAfterRecovery(r, t) ==
  IF r.lastRecoveredAt # NULL
  THEN IF t - r.lastRecoveredAt <= JumpPenaltyWindow THEN 2 ELSE 1
  ELSE 0

levelIncrease(r, t) ==
  IF r.lastRecoveredAt # NULL
  THEN IF t - r.lastRecoveredAt <= JumpPenaltyWindow THEN 2 ELSE 1
  ELSE 1

\* RecordFailure: the row after the call at time t under settings s
RecordFailure(r, s, t) ==
  IF ~s.enableBlacklist THEN r
  ELSE IF ~s.enableLevelBlacklist THEN
    recordFailureFixedMode(r, s.fallbackMode, s.durationMinutes, s.failureThreshold, t)
  ELSE IF ~r.exists THEN
    [NoRow EXCEPT !.exists = TRUE, !.failureCount = 1, !.lastFailureAt = t,
                  !.lastFailureWindowStart = t, !.blacklistLevel = 0]
  ELSE IF stillBlacklisted(r.blacklistedUntil, t) THEN r
  ELSE IF inDedupeWindow(r.lastFailureWindowStart, t) THEN r
  ELSE LET failureCount == r.failureCount + 1 IN
    IF thresholdReached(failureCount, s.levelFailureThreshold) THEN
      LET newLevel == Min(MaxLevel, r.blacklistLevel + levelIncrease(r, t)) IN
      [r EXCEPT !.failureCount = 0, !.lastFailureAt = t, !.blacklistedAt = t,
                !.blacklistedUntil = t + getLevelDuration(newLevel),
                !.blacklistLevel = newLevel, !.autoRecovered = FALSE,
                !.lastFailureWindowStart = t]
    ELSE
      [r EXCEPT !.failureCount = failureCount, !.lastFailureAt = t,
                !.lastFailureWindowStart = t]

\* the forgiveness test of RecordSuccess
forgivenessLate(timeSinceRecovery, blacklistLevel) ==
  timeSinceRecovery > ForgivenessWindow /\ blacklistLevel >= 3

forgivenessApplies(timeSinceRecovery, blacklistLevel) ==
  timeSinceRecovery >= ForgivenessWindow /\ blacklistLevel >= 3

\* the hourly degrade of RecordSuccess: one level per whole hour since the
\* recovery that has not been counted in lastDegradeHour yet
degradedLevelEveryCall(blacklistLevel, hoursSinceRecovery, lastDegradeHour) ==
  IF hoursSinceRecovery > 0 THEN Max(0, blacklistLevel - 1) ELSE blacklistLevel

degradedLevel(blacklistLevel, hoursSinceRecovery, lastDegradeHour) ==
  IF hoursSinceRecovery > lastDegradeHour
  THEN Max(0, blacklistLevel - (hoursSinceRecovery - lastDegradeHour))
  ELSE blacklistLevel

\* RecordSuccess: the row after the call at time t under settings s
RecordSuccessUnblocks(r, s, t) ==
  IF ~r.exists THEN r
  ELSE [r EXCEPT !.failureCount = 0, !.blacklistedAt = NULL,
                 !.blacklistedUntil = NULL]

RecordSuccess(r, s, t) ==
  IF ~r.exists THEN r
  ELSE
    LET justRecovered == r.blacklistedUntil # NULL /\ r.blacklistedUntil < t
                         /\ r.lastRecoveredAt = NULL
        lastRecoveredAt == IF justRecovered THEN t ELSE r.lastRecoveredAt
    IN
    IF ~s.enableLevelBlacklist THEN [r EXCEPT !.failureCount = 0]
    ELSE
      LET timeSinceRecovery == t - lastRecoveredAt
          hoursSinceRecovery == timeSinceRecovery \div HourUnits
          degrading == lastRecoveredAt # NULL /\ r.blacklistLevel > 0
          forgiven == degrading
                      /\ forgivenessApplies(timeSinceRecovery, r.blacklistLevel)
          hourly == degrading /\ ~forgiven /\ hoursSinceRecovery > r.lastDegradeHour
          newLevel ==
            IF forgiven THEN 0
            ELSE IF degrading
              THEN degradedLevel(r.blacklistLevel, hoursSinceRecovery,
                                 r.lastDegradeHour)
              ELSE r.blacklistLevel
          newLastDegradeHour ==
            IF forgiven THEN 0
            ELSE IF hourly THEN hoursSinceRecovery ELSE r.lastDegradeHour
      IN [r EXCEPT !.failureCount = 0, !.blacklistLevel = newLevel,
                   !.lastRecoveredAt = lastRecoveredAt,
                   !.lastDegradeHour = newLastDegradeHour]

\* IsBlacklisted: the boolean result of the call at time t
IsBlacklistedNotBefore(r, s, t) ==
  IF ~s.enableBlacklist THEN FALSE
  ELSE IF ~(r.exists /\ r.blacklistedUntil # NULL) THEN FALSE
  ELSE r.blacklistedUntil >= t

IsBlacklisted(r, s, t) ==
  IF ~s.enableBlacklist THEN FALSE
  ELSE IF ~(r.exists /\ r.blacklistedUntil # NULL) THEN FALSE
  ELSE r.blacklistedUntil > t

\* ManualUnblockAndReset: full reset of an existing row
ManualUnblockAndReset(r, t) ==
  IF ~r.exists THEN r
  ELSE [r EXCEPT !.blacklistedAt = NULL, !.blacklistedUntil = NULL,
                 !.failureCount = 0, !.blacklistLevel = 0,
                 !.lastRecoveredAt = t, !.lastDegradeHour = 0,
                 !.autoRecovered = FALSE]

\* ManualResetLevel: level-only reset of an existing row
ManualResetLevelUnblocks(r) ==
  IF ~r.exists THEN r
  ELSE [r EXCEPT !.blacklistLevel = 0, !.lastDegradeHour = 0,
                 !.blacklistedAt = NULL, !.blacklistedUntil = NULL]

ManualResetLevel(r) ==
  IF ~r.exists THEN r
  ELSE [r EXCEPT !.blacklistLevel = 0, !.lastDegradeHour = 0]

\* the error returned by a mutation, as far as the record decides it: the
\* manual operations report an UPDATE that matched no row; RecordSuccess
\* returns nil on sql.ErrNoRows and RecordFailure after its INSERT
NoRowsAffectedIgnored(r) == FALSE

ManualUnblockAndResetError(r) == ~r.exists
ManualResetLevelError(r) == ~r.exists
RecordSuccessError(r) == FALSE
RecordFailureError(r) == FALSE

\* AutoRecoverExpired: one row of the sweep at time t
AutoRecoverRowAnyExpiry(r, t) ==
  IF r.exists /\ r.blacklistedUntil # NULL /\ ~r.autoRecovered
  THEN [r EXCEPT !.autoRecovered = TRUE, !.failureCount = 0]
  ELSE r

AutoRecoverRow(r, t) ==
  IF r.exists /\ r.blacklistedUntil # NULL /\ ~r.autoRecovered
     /\ ~(r.blacklistedUntil > t)
  THEN [r EXCEPT !.autoRecovered = TRUE, !.failureCount = 0]
  ELSE r

(***************************************************************************)
(* Model names and patterns are sequences of one-character strings.        *)
(***************************************************************************)
Star == "*"
Panic == <<"!">>   \* outcome of a slice with low bound above high bound

Contains(s, c) == \E i \in 1..Len(s) : s[i] = c
StarCount(s) == Cardinality({i \in 1..Len(s) : s[i] = Star})
FirstStar(s) == CHOOSE i \in 1..Len(s) : s[i] = Star /\ \A j \in 1..(i-1) : s[j] # Star
HasPrefix(text, prefix) ==
  Len(prefix) <= Len(text) /\ SubSeq(text, 1, Len(prefix)) = prefix
HasSuffix(text, suffix) ==
  Len(suffix) <= Len(text)
  /\ SubSeq(text, Len(text) - Len(suffix) + 1, Len(text)) = suffix
\* the two parts of strings.Split(pattern, "*") of a pattern with one star
PrefixOf(pattern) == SubSeq(pattern, 1, FirstStar(pattern) - 1)
SuffixOf(pattern) == SubSeq(pattern, FirstStar(pattern) + 1, Len(pattern))

matchWildcardDisjoint(pattern, text) ==
  IF ~Contains(pattern, Star) THEN pattern = text
  ELSE IF StarCount(pattern) = 1
       THEN /\ HasPrefix(text, PrefixOf(pattern))
            /\ HasSuffix(text, SuffixOf(pattern))
            /\ Len(PrefixOf(pattern)) + Len(SuffixOf(pattern)) <= Len(text)
       ELSE FALSE

\* matchWildcard
matchWildcard(pattern, text) ==
  IF ~Contains(pattern, Star) THEN pattern = text
  ELSE IF StarCount(pattern) = 1
       THEN HasPrefix(text, PrefixOf(pattern)) /\ HasSuffix(text, SuffixOf(pattern))
       ELSE FALSE

\* applyWildcardMapping
applyWildcardMapping(pattern, replacement, input) ==
  IF ~Contains(pattern, Star) \/ ~Contains(replacement, Star) THEN replacement
  ELSE IF StarCount(pattern) # 1 THEN replacement
  ELSE IF ~HasPrefix(input, PrefixOf(pattern)) \/ ~HasSuffix(input, SuffixOf(pattern))
       THEN replacement
  ELSE IF Len(PrefixOf(pattern)) > Len(input) - Len(SuffixOf(pattern)) THEN Panic
  ELSE LET wildcardPart == SubSeq(input, Len(PrefixOf(pattern)) + 1,
                                  Len(input) - Len(SuffixOf(pattern)))
           i == FirstStar(replacement)
       IN SubSeq(replacement, 1, i - 1) \o wildcardPart
          \o SubSeq(replacement, i + 1, Len(replacement))

(***************************************************************************)
(* Provider: name, enabled, apiUrl / apiKey (set or empty), level,         *)
(* supportedModels (the keys of the map; a nil map is the empty set) and   *)
(* modelMapping (a function from patterns to patterns).                    *)
(***************************************************************************)
MappingKeys(p) == DOMAIN p.modelMapping

\* IsModelSupported
IsModelSupportedWhitelistFirst(p, modelName) ==
  IF p.supportedModels = {} /\ MappingKeys(p) = {} THEN TRUE
  ELSE IF p.supportedModels # {}
  THEN \/ modelName \in p.supportedModels
       \/ \E supportedModel \in p.supportedModels : matchWildcard(supportedModel, modelName)
  ELSE \/ modelName \in MappingKeys(p)
       \/ \E pattern \in MappingKeys(p) : matchWildcard(pattern, modelName)

IsModelSupported(p, modelName) ==
  IF p.supportedModels = {} /\ MappingKeys(p) = {} THEN TRUE
  ELSE \/ modelName \in p.supportedModels
       \/ \E supportedModel \in p.supportedModels : matchWildcard(supportedModel, modelName)
       \/ modelName \in MappingKeys(p)
       \/ \E pattern \in MappingKeys(p) : matchWildcard(pattern, modelName)

\* GetEffectiveModel: the results the call can produce (a Go map is ranged
\* over in an unspecified order, so any matching wildcard key may be the one
\* that is applied)
GetEffectiveModel(p, requestedModel) ==
  IF MappingKeys(p) = {} THEN {requestedModel}
  ELSE IF requestedModel \in MappingKeys(p) THEN {p.modelMapping[requestedModel]}
  ELSE LET matching == {pattern \in MappingKeys(p) : matchWildcard(pattern, requestedModel)}
       IN IF matching = {} THEN {requestedModel}
          ELSE {applyWildcardMapping(pattern, p.modelMapping[pattern], requestedModel) :
                  pattern \in matching}

\* ValidateConfiguration: the kinds of the findings it returns
ValidateConfiguration(p) ==
  {"invalidTarget" : k \in {k \in MappingKeys(p) :
       /\ p.supportedModels # {}
       /\ ~Contains(p.modelMapping[k], Star)
       /\ p.modelMapping[k] \notin p.supportedModels
       /\ ~\E supportedPattern \in p.supportedModels :
              matchWildcard(supportedPattern, p.modelMapping[k])}}
  \cup {"noWhitelist" : k \in {k \in MappingKeys(p) : p.supportedModels = {}}}
  \cup {"selfMapping" : k \in {k \in MappingKeys(p) : p.modelMapping[k] = k}}

(***************************************************************************)
(* SettingsService: the persisted blacklist settings.                      *)
(***************************************************************************)
FallbackModes == {"fixed", "none"}
Durations == {FallbackDuration}

\* GetBlacklistLevelConfig / GetBlacklistSettings: the persisted policies.
\* One failure threshold is configured for both modes.
Policies ==
  {pol \in [failureThreshold : 1..MaxThreshold, fallbackMode : FallbackModes,
            enableLevelBlacklist : BOOLEAN] :
     pol.enableLevelBlacklist => pol.fallbackMode = "fixed"}

\* app_settings rows as persisted; the master switch at its default
InitialSettings(pol) ==
  [enableBlacklist |-> TRUE, enableLevelBlacklist |-> pol.enableLevelBlacklist,
   failureThreshold |-> pol.failureThreshold, durationMinutes |-> FallbackDuration,
   levelFailureThreshold |-> pol.failureThreshold,
   fallbackMode |-> pol.fallbackMode]

UpdateBlacklistEnabled(enabled) ==
  /\ settings' = [settings EXCEPT !.enableBlacklist = enabled]
  /\ UNCHANGED <<now, bl, providers>>

(***************************************************************************)
(* BlacklistService calls as steps of the system.                          *)
(***************************************************************************)
Tick ==
  /\ now < MaxTime
  /\ now' = now + 1
  /\ UNCHANGED <<settings, bl, providers>>

RecordFailureCall(p) ==
  /\ bl' = [bl EXCEPT ![p] = RecordFailure(bl[p], settings, now)]
  /\ UNCHANGED <<now, settings, providers>>

RecordSuccessCall(p) ==
  /\ bl' = [bl EXCEPT ![p] = RecordSuccess(bl[p], settings, now)]
  /\ UNCHANGED <<now, settings, providers>>

ManualUnblockAndResetCall(p) ==
  /\ bl' = [bl EXCEPT ![p] = ManualUnblockAndReset(bl[p], now)]
  /\ UNCHANGED <<now, settings, providers>>

ManualResetLevelCall(p) ==
  /\ bl' = [bl EXCEPT ![p] = ManualResetLevel(bl[p])]
  /\ UNCHANGED <<now, settings, providers>>

AutoRecoverExpired ==
  /\ bl' = [p \in Names |-> AutoRecoverRow(bl[p], now)]
  /\ UNCHANGED <<now, settings, providers>>

(***************************************************************************)
(* ProviderRelayService: one inbound request on /v1/messages or /responses *)
(* is handled in one step.  The inputs of a request are the model named in *)
(* its body (<<>>: none) and what the upstream does when it is contacted.  *)
(***************************************************************************)
Prov(name, enabled, level, supportedModels, modelMapping) ==
  [name |-> name, enabled |-> enabled, apiUrl |-> TRUE, apiKey |-> TRUE,
   level |-> level, supportedModels |-> supportedModels,
   modelMapping |-> modelMapping]

\* provider lists a user can have saved (LoadProviders returns the list)
ProviderLists ==
  { << Prov("P1", TRUE, 2, {}, <<>>),
       Prov("P2", TRUE, 0, {<<"a">>}, <<>>) >>,
    << Prov("P3", FALSE, 1, {}, <<>>),
       Prov("P1", TRUE, 1, {<<"x", "*">>}, (<<"a", "*">> :> <<"x", "*">>)),
       Prov("P2", TRUE, 1, {}, <<>>) >> }

ReqModels == {<<>>, <<"a">>, <<"b">>}
Statuses == {0, 199, 200, 299, 300}
\* what the upstream does with a forwarded request.  err: req.Post or
\* resp.Error() reported an error; copyErr: writing the response to the client
\* failed
Outcomes ==
  {[err |-> TRUE, status |-> 0, copyErr |-> FALSE],
   [err |-> FALSE, status |-> 200, copyErr |-> TRUE]}
  \cup [err : {FALSE}, status : Statuses, copyErr : {FALSE}]

\* proxyHandler, candidate filter: the positions of the list that stay active
passesFilter(i, requestedModel) ==
  LET provider == providers[i] IN
  /\ provider.enabled /\ provider.apiUrl /\ provider.apiKey
  /\ ValidateConfiguration(provider) = {}
  /\ (requestedModel = <<>> \/ IsModelSupported(provider, requestedModel))

\* the providers that pass every test but the blacklist
eligible(requestedModel) ==
  {i \in 1..Len(providers) : passesFilter(i, requestedModel)}

skippedBlacklisted(requestedModel) ==
  {i \in eligible(requestedModel) :
     IsBlacklisted(bl[providers[i].name], settings, now)}

activeProvidersUnfiltered(requestedModel) == eligible(requestedModel)

activeProviders(requestedModel) ==
  {i \in eligible(requestedModel) :
     ~IsBlacklisted(bl[providers[i].name], settings, now)}

\* proxyHandler, grouping by level: unset or non-positive level reads as 1
groupLevel(i) == IF providers[i].level <= 0 THEN 1 ELSE providers[i].level

levelGroup(active, level) == {i \in active : groupLevel(i) = level}

\* levels[0] after sort.Ints, and the first provider appended to its group
firstLevel(active) ==
  CHOOSE level \in {groupLevel(i) : i \in active} :
    \A i \in active : level <= groupLevel(i)

firstListed(active) == CHOOSE i \in active : \A j \in active : i <= j

firstProvider(active) ==
  CHOOSE i \in levelGroup(active, firstLevel(active)) :
    \A j \in levelGroup(active, firstLevel(active)) : i <= j

\* forwardRequest: ok exactly for 2xx, or status 0, copied without error
forwardRequestUncopied(outcome) ==
  /\ ~outcome.err
  /\ (outcome.status = 0 \/ (outcome.status >= 200 /\ outcome.status < 300))

forwardRequest(outcome) ==
  /\ ~outcome.err
  /\ (outcome.status = 0 \/ (outcome.status >= 200 /\ outcome.status < 300))
  /\ ~outcome.copyErr

\* the providers one request is forwarded to, in order: the selected one only
forwardTargetsFailover(active, outcome) ==
  IF forwardRequest(outcome) \/ Cardinality(active) = 1
  THEN <<firstProvider(active)>>
  ELSE <<firstProvider(active),
         firstProvider(active \ {firstProvider(active)})>>

forwardTargets(active, outcome) == <<firstProvider(active)>>

\* forwardRequest, deferred insert: the request_log rows of the attempts of
\* one request, each written when forwardRequest returns, with the upstream
\* status seen by then (0: none)
requestLogOnSuccess(names, outcome) ==
  IF forwardRequest(outcome)
  THEN [k \in 1..Len(names) |->
          [provider |-> names[k], httpCode |-> outcome.status]]
  ELSE <<>>

requestLog(names, outcome) ==
  [k \in 1..Len(names) |-> [provider |-> names[k], httpCode |-> outcome.status]]

\* proxyHandler, skippedCount: the usable providers of the list provs that
\* were passed over for a request of model m while the providers named in
\* blacklistedNames were blacklisted
skippedCount(provs, blacklistedNames, m) ==
  Cardinality({i \in 1..Len(provs) :
     /\ provs[i].enabled /\ provs[i].apiUrl /\ provs[i].apiKey
     /\ \/ ValidateConfiguration(provs[i]) # {}
        \/ (m # <<>> /\ ~IsModelSupported(provs[i], m))
        \/ provs[i].name \in blacklistedNames})

\* the body of the 404 answer: which message it is, and the model name and
\* the count the message is formatted with
notFoundBody(provs, blacklistedNames, m) ==
  IF m # <<>>
  THEN [error |-> "noProviderSupportsModel", model |-> m,
        skipped |-> skippedCount(provs, blacklistedNames, m)]
  ELSE [error |-> "noProvidersAvailable", model |-> <<>>, skipped |-> 0]

\* the model field of the body handed to forwardRequest (<<>>: none)
forwardedModel(requestedModel, effectiveModel) ==
  IF effectiveModel # requestedModel /\ requestedModel # <<>>
  THEN effectiveModel
  ELSE requestedModel

NoBody == [error |-> "", model |-> <<>>, skipped |-> 0]

NoReq ==
  [served |-> FALSE, at |-> 0, candidates |-> {}, blacklisted |-> {},
   contacted |-> <<>>,
   outcome |-> [err |-> FALSE, status |-> 0, copyErr |-> FALSE],
   calls |-> <<>>, status |-> 0, failedProvider |-> "", logged |-> <<>>,
   model |-> <<>>, forwarded |-> <<>>, body |-> NoBody]

proxyHandler(requestedModel) ==
  \E active \in {activeProviders(requestedModel)} :
  \E base \in {[NoReq EXCEPT !.served = TRUE, !.at = now, !.candidates = active,
                             !.blacklisted = skippedBlacklisted(requestedModel),
                             !.model = requestedModel]} :
  IF active = {} THEN
    /\ req' = [base EXCEPT
                 !.status = 404,
                 !.body = notFoundBody(providers,
                            {providers[i].name : i \in base.blacklisted},
                            requestedModel)]
    /\ UNCHANGED <<now, settings, bl, providers>>
  ELSE
    \E effectiveModel \in
         GetEffectiveModel(providers[firstProvider(active)], requestedModel) :
      IF effectiveModel = Panic THEN
        \* the handler panics; gin's recovery answers 500
        /\ req' = [base EXCEPT !.status = 500]
        /\ UNCHANGED <<now, settings, bl, providers>>
      ELSE
        \E outcome \in Outcomes :
        \E targets \in {forwardTargets(active, outcome)} :
        \E ok \in {forwardRequest(outcome)} :
        \E names \in {[k \in 1..Len(targets) |-> providers[targets[k]].name]} :
        /\ bl' = [n \in Names |->
                    IF \A k \in 1..Len(names) : names[k] # n THEN bl[n]
                    ELSE IF ok THEN RecordSuccess(bl[n], settings, now)
                    ELSE RecordFailure(bl[n], settings, now)]
        /\ req' = [base EXCEPT
                     !.contacted = names,
                     !.outcome = outcome,
                     !.calls = [k \in 1..Len(names) |->
                                 <<IF ok THEN "RecordSuccess" ELSE "RecordFailure",
                                   names[k]>>],
                     !.status = IF ok THEN outcome.status ELSE 502,
                     !.failedProvider = IF ok THEN "" ELSE names[Len(names)],
                     !.logged = requestLog(names, outcome),
                     !.forwarded = forwardedModel(requestedModel, effectiveModel)]
        /\ UNCHANGED <<now, settings, providers>>

(***************************************************************************)
(* Observation of the calls made on a pair (not program state):            *)
(*   op, enabled, at - the latest call, whether the blacklist was enabled  *)
(*       when it was made, and the instant of a RecordFailure or           *)
(*       RecordSuccess call;                                               *)
(*   level, count, changed - the row's level and count before the call,    *)
(*       and whether the call changed the row;                             *)
(*   n - the number of RecordFailure calls made in a row on a pair that    *)
(*       had no record, each made with the blacklist enabled and outside   *)
(*       the dedupe window of the previous one (0: no such run);           *)
(*   countedAt, burst - the instant of the latest RecordFailure that       *)
(*       changed the row, and whether two such calls ever fell inside one  *)
(*       dedupe window;                                                    *)
(*   err - whether the latest call returned an error.                      *)
(***************************************************************************)
NoObs ==
  [op |-> "none", enabled |-> FALSE, at |-> NULL, level |-> 0, count |-> 0,
   changed |-> FALSE, n |-> 0, countedAt |-> NULL, burst |-> FALSE,
   err |-> FALSE]

ObserveFailure(p) ==
  LET counted == bl'[p] # bl[p]
      goesOn == settings.enableBlacklist /\ obs.n \in 1..2
                /\ now - obs.at >= DedupeWindow
      starts == settings.enableBlacklist /\ ~bl[p].exists
  IN obs' = [op |-> "RecordFailure", enabled |-> settings.enableBlacklist,
             at |-> now, level |-> bl[p].blacklistLevel,
             count |-> bl[p].failureCount, changed |-> counted,
             n |-> IF goesOn THEN obs.n + 1 ELSE IF starts THEN 1 ELSE 0,
             countedAt |-> IF counted THEN now ELSE obs.countedAt,
             burst |-> obs.burst \/ (counted /\ obs.countedAt # NULL
                                     /\ now - obs.countedAt < DedupeWindow),
             err |-> RecordFailureError(bl[p])]

Observe(op, p) ==
  obs' = [obs EXCEPT !.op = op, !.enabled = settings.enableBlacklist,
                     !.at = IF op = "RecordSuccess" THEN now ELSE NULL,
                     !.level = bl[p].blacklistLevel,
                     !.count = bl[p].failureCount, !.changed = bl'[p] # bl[p],
                     !.n = 0,
                     !.err = CASE op = "ManualUnblockAndReset" ->
                                    ManualUnblockAndResetError(bl[p])
                               [] op = "ManualResetLevel" ->
                                    ManualResetLevelError(bl[p])
                               [] op = "RecordSuccess" ->
                                    RecordSuccessError(bl[p])
                               [] OTHER -> FALSE]

(***************************************************************************)
(* BlacklistService calls as goroutines run them: a call reads the clock   *)
(* and SELECTs the record, then, in a second statement, INSERTs or         *)
(* UPDATEs it with the values it has computed from what it read.  Nothing  *)
(* holds the record between the two statements.                            *)
(***************************************************************************)
Goroutines == {1, 2}
ConcOps == {"RecordFailure", "RecordSuccess", "AutoRecoverExpired"}
ConcPair == "P1"

\* a goroutine that has read nothing yet
Idle == [pc |-> "idle", op |-> "none", t |-> NULL, snap |-> NULL]

\* no call under way; base: the record when the first call began;
\* inserts: the INSERTs into provider_blacklist that succeeded for the pair;
\* errors: the calls that returned an error
NoCalls ==
  [call |-> [g \in Goroutines |-> Idle], base |-> NULL, inserts |-> 0,
   errors |-> 0]

\* the record a call computes from the record it has read
computed(op, snap, s, t) ==
  CASE op = "RecordFailure" -> RecordFailure(snap, s, t)
    [] op = "RecordSuccess" -> RecordSuccess(snap, s, t)
    [] OTHER -> AutoRecoverRow(snap, t)

\* the columns set by the UPDATE of a call (none: the call writes nothing or
\* INSERTs); res is the record computed from snap
writtenColumns(op, snap, res, s, t) ==
  CASE op = "RecordSuccess" ->
         IF ~snap.exists THEN {}
         ELSE IF ~s.enableLevelBlacklist THEN {"failureCount"}
         ELSE {"failureCount", "blacklistLevel", "lastRecoveredAt",
               "lastDegradeHour"}
    [] op = "RecordFailure" ->
         IF ~snap.exists \/ res = snap THEN {}
         ELSE IF res.blacklistedUntil # NULL /\ res.blacklistedUntil > t
           THEN IF s.enableLevelBlacklist
                THEN {"failureCount", "lastFailureAt", "blacklistedAt",
                      "blacklistedUntil", "blacklistLevel", "autoRecovered",
                      "lastFailureWindowStart"}
                ELSE {"failureCount", "lastFailureAt", "blacklistedAt",
                      "blacklistedUntil", "autoRecovered"}
         ELSE IF s.enableLevelBlacklist
                THEN {"failureCount", "lastFailureAt", "lastFailureWindowStart"}
                ELSE {"failureCount", "lastFailureAt"}
    [] OTHER -> IF res = snap THEN {} ELSE {"autoRecovered", "failureCount"}

\* UPDATE ... WHERE id = ?: the stored record with the columns overwritten
executeUpdate(cur, cols, res) ==
  IF ~cur.exists THEN cur
  ELSE [f \in DOMAIN cur |-> IF f \in cols THEN res[f] ELSE cur[f]]

\* UNIQUE(platform, provider_name): an INSERT for a pair that has a row fails
insertUnconstrained(cur) == FALSE

uniqueViolation(cur) == cur.exists

\* a goroutine starts a call: time.Now() and the SELECT
Begin(g, op) ==
  /\ inflight.call[g].pc = "idle"
  /\ inflight' =
       [inflight EXCEPT
          !.call[g] = [pc |-> "read", op |-> op, t |-> now,
                       snap |-> bl[ConcPair]],
          !.base = IF \A h \in Goroutines : inflight.call[h].pc = "idle"
                   THEN bl[ConcPair] ELSE @]
  /\ UNCHANGED <<now, settings, bl, providers>>

\* the goroutine's INSERT or UPDATE, and the return of the call
Commit(g) ==
  /\ inflight.call[g].pc = "read"
  /\ \E c \in {inflight.call[g]} :
     \E res \in {computed(c.op, c.snap, settings, c.t)} :
       IF c.op = "RecordFailure" /\ ~c.snap.exists /\ res.exists
       THEN IF uniqueViolation(bl[ConcPair])
            THEN /\ bl' = bl
                 /\ inflight' = [inflight EXCEPT !.call[g].pc = "done",
                                                 !.errors = @ + 1]
            ELSE /\ bl' = [bl EXCEPT ![ConcPair] = res]
                 /\ inflight' = [inflight EXCEPT !.call[g].pc = "done",
                                                 !.inserts = @ + 1]
       ELSE /\ bl' = [bl EXCEPT ![ConcPair] =
                        executeUpdate(bl[ConcPair],
                                      writtenColumns(c.op, c.snap, res,
                                                     settings, c.t), res)]
            /\ inflight' = [inflight EXCEPT !.call[g].pc = "done"]
  /\ UNCHANGED <<now, settings, providers>>

\* a failure reported while no other call is under way
LoneFailure ==
  /\ \A g \in Goroutines : inflight.call[g].pc = "idle"
  /\ RecordFailureCall(ConcPair)
  /\ inflight' = [inflight EXCEPT
                    !.inserts = IF bl'[ConcPair].exists /\ ~bl[ConcPair].exists
                                THEN @ + 1 ELSE @]

vars == <<now, settings, bl, providers, req, inflight, shadow, obs>>

Init ==
  /\ now = 0
  /\ \E pol \in Policies : settings = InitialSettings(pol)
  /\ bl = [p \in Names |-> NoRow]
  /\ providers = <<>>
  /\ req = NoReq
  /\ inflight = NoCalls
  /\ shadow = NULL
  /\ obs = NoObs

Next ==
  \/ Tick /\ UNCHANGED <<req, inflight, shadow, obs>>
  \/ \E p \in Tracked : RecordFailureCall(p) /\ ObserveFailure(p)
                          /\ UNCHANGED <<req, inflight, shadow>>
  \/ \E p \in Tracked : RecordSuccessCall(p) /\ Observe("RecordSuccess", p)
                          /\ UNCHANGED <<req, inflight, shadow>>
  \/ \E p \in Tracked : ManualUnblockAndResetCall(p)
                          /\ Observe("ManualUnblockAndReset", p)
                          /\ UNCHANGED <<req, inflight, shadow>>
  \/ \E p \in Tracked : ManualResetLevelCall(p) /\ Observe("ManualResetLevel", p)
                          /\ UNCHANGED <<req, inflight, shadow>>
  \/ \E p \in Tracked : AutoRecoverExpired /\ Observe("AutoRecoverExpired", p)
                          /\ UNCHANGED <<req, inflight, shadow>>
  \/ \E b \in BOOLEAN : UpdateBlacklistEnabled(b)
                         /\ UNCHANGED <<req, inflight, shadow, obs>>

Spec == Init /\ [][Next]_vars

(***************************************************************************)
(* The relay under client traffic: requests, the clock and the master      *)
(* switch.                                                                 *)
(***************************************************************************)
\* the thresholds that can be crossed within the horizon of the relay
RelayThresholds == {1, 2}

RelayPolicies == {pol \in Policies : pol.failureThreshold \in RelayThresholds}

RelayInit ==
  /\ now = 0
  /\ \E pol \in RelayPolicies : settings = InitialSettings(pol)
  /\ bl = [p \in Names |-> NoRow]
  /\ providers \in ProviderLists
  /\ req = NoReq
  /\ inflight = NoCalls
  /\ shadow = NULL
  /\ obs = NoObs

RelayNext ==
  \/ \E m \in ReqModels : proxyHandler(m) /\ UNCHANGED <<inflight, shadow, obs>>
  \/ Tick /\ now < RelayMaxTime /\ UNCHANGED <<req, inflight, shadow, obs>>
  \/ \E b \in BOOLEAN : UpdateBlacklistEnabled(b)
                         /\ UNCHANGED <<req, inflight, shadow, obs>>

RelaySpec == RelayInit /\ [][RelayNext]_vars

(***************************************************************************)
(* The relay over provider lists whose model configuration draws findings  *)
(* from ValidateConfiguration: a mapping of a model to itself, a mapping   *)
(* without a whitelist, and a mapping to a model outside the whitelist;    *)
(* and over a list whose first provider maps every model to one model.     *)
(***************************************************************************)
ConfigLists ==
  { << Prov("P1", TRUE, 1, {<<"a">>, <<"b">>}, (<<"a">> :> <<"a">>)),
       Prov("P2", TRUE, 2, {}, <<>>) >>,
    << Prov("P1", TRUE, 1, {<<"c">>}, (<<"*">> :> <<"c">>)),
       Prov("P2", TRUE, 2, {}, <<>>) >>,
    << Prov("P1", TRUE, 1, {}, (<<"a">> :> <<"b">>) @@ (<<"b">> :> <<"a">>)),
       Prov("P2", TRUE, 1, {<<"a">>}, (<<"b">> :> <<"c">>)),
       Prov("P3", TRUE, 2, {<<"a">>, <<"b">>}, <<>>) >> }

ConfigInit ==
  /\ now = 0
  /\ \E pol \in Policies : settings = InitialSettings(pol)
  /\ bl = [p \in Names |-> NoRow]
  /\ providers \in ConfigLists
  /\ req = NoReq
  /\ inflight = NoCalls
  /\ shadow = NULL
  /\ obs = NoObs

ConfigSpec == ConfigInit /\ [][RelayNext]_vars

(***************************************************************************)
(* One client that keeps retrying the same request while the first         *)
(* provider of the list fails every request forwarded to it and the other  *)
(* providers answer.  The client retries at every instant and within every *)
(* blacklist period; the sweep runs at any time.                           *)
(***************************************************************************)
RetriedModel == <<"a">>

FailingProvider == providers[firstProvider(eligible(RetriedModel))].name

ClientRetry ==
  /\ proxyHandler(RetriedModel)
  /\ Len(req'.contacted) = 1
  /\ (req'.status = 502) = (req'.contacted[1] = FailingProvider)
  /\ UNCHANGED <<inflight, shadow, obs>>

LiveTick ==
  /\ Tick
  /\ now < MaxThreshold
  /\ req.served /\ req.at = now
  /\ skippedBlacklisted(RetriedModel) \subseteq req.blacklisted
  /\ UNCHANGED <<req, inflight, shadow, obs>>

LiveNext ==
  \/ ClientRetry
  \/ LiveTick
  \/ AutoRecoverExpired /\ UNCHANGED <<req, inflight, shadow, obs>>

LiveSpec ==
  RelayInit /\ [][LiveNext]_vars /\ WF_vars(ClientRetry) /\ WF_vars(LiveTick)

(***************************************************************************)
(* Two relay goroutines and the sweep timer report on one pair at once,    *)
(* after any number of failures reported one at a time.                    *)
(***************************************************************************)
ConcNext ==
  \/ LoneFailure /\ UNCHANGED <<req, shadow, obs>>
  \/ \E g \in Goroutines : \E op \in ConcOps :
       Begin(g, op) /\ UNCHANGED <<req, shadow, obs>>
  \/ \E g \in Goroutines : Commit(g) /\ UNCHANGED <<req, shadow, obs>>
  \/ Tick /\ now < ConcMaxTime /\ UNCHANGED <<req, inflight, shadow, obs>>

ConcSpec == Init /\ [][ConcNext]_vars

(***************************************************************************)
(* The tracked pair under relay traffic and the sweep timer, next to the   *)
(* record that the same RecordFailure and RecordSuccess calls produce when *)
(* no sweep runs.                                                          *)
(***************************************************************************)
TrafficFailure ==
  /\ RecordFailureCall(ConcPair)
  /\ shadow' = RecordFailure(shadow, settings, now)

TrafficSuccess ==
  /\ RecordSuccessCall(ConcPair)
  /\ shadow' = RecordSuccess(shadow, settings, now)

SweepNext ==
  \/ TrafficFailure /\ UNCHANGED <<req, inflight, obs>>
  \/ TrafficSuccess /\ UNCHANGED <<req, inflight, obs>>
  \/ AutoRecoverExpired /\ UNCHANGED <<req, inflight, shadow, obs>>
  \/ Tick /\ now < SweepMaxTime /\ UNCHANGED <<req, inflight, shadow, obs>>

SweepInit ==
  /\ now = 0
  /\ \E pol \in Policies : settings = InitialSettings(pol)
  /\ bl = [p \in Names |-> NoRow]
  /\ providers = <<>>
  /\ req = NoReq
  /\ inflight = NoCalls
  /\ shadow = NoRow
  /\ obs = NoObs

SweepSpec == SweepInit /\ [][SweepNext]_vars

(***************************************************************************)
(* Calls of the pure functions of the model resolver.  The arguments of a  *)
(* call are drawn when the call is made; obs holds the call and, once it   *)
(* has returned, its result.                                               *)
(***************************************************************************)
Strings(alphabet, n) == UNION {[1..k -> alphabet] : k \in 0..n}

Patterns == Strings({"a", "b", Star}, MaxLen)
ModelNames == Strings({"a", "b"}, MaxLen)

Idle0 ==
  /\ now = 0
  /\ settings = InitialSettings([failureThreshold |-> 1, fallbackMode |-> "fixed",
                                 enableLevelBlacklist |-> FALSE])
  /\ bl = [p \in Names |-> NoRow]
  /\ req = NoReq
  /\ inflight = NoCalls
  /\ shadow = NULL

MatchInit ==
  /\ Idle0
  /\ providers = <<>>
  /\ \E pattern \in Patterns, text \in ModelNames :
       obs = [op |-> "matchWildcard", pattern |-> pattern, text |-> text,
              returned |-> FALSE, result |-> FALSE]

matchWildcardCall ==
  /\ obs.op = "matchWildcard" /\ ~obs.returned
  /\ obs' = [obs EXCEPT !.returned = TRUE,
                        !.result = matchWildcard(obs.pattern, obs.text)]
  /\ UNCHANGED <<now, settings, bl, providers, req, inflight, shadow>>

MatchNext == matchWildcardCall

MatchSpec == MatchInit /\ [][MatchNext]_vars

\* the model configurations of the provider the resolver is called on
ResolverWhitelists == {{}, {<<"b">>}, {<<"b", "*">>}}

ResolverMappings ==
  { <<>>,
    (<<"a">> :> <<"b">>),
    (<<"a", "*">> :> <<"b", "*">>),
    (<<"a">> :> <<"b">>) @@ (<<"a", "*">> :> <<"b", "*">>),
    (<<"a", "*">> :> <<"b", "*">>) @@ (<<"*", "a">> :> <<"b", "b", "*">>),
    (<<"a", "*", "a">> :> <<"b", "*">>) }

ResolverInit ==
  /\ Idle0
  /\ \E supportedModels \in ResolverWhitelists, modelMapping \in ResolverMappings :
       providers = <<Prov("P1", TRUE, 1, supportedModels, modelMapping)>>
  /\ \E op \in {"IsModelSupported", "GetEffectiveModel"}, m \in ModelNames :
       obs = [op |-> op, model |-> m, results |-> <<>>, added |-> FALSE,
              entry |-> <<>>, unconfigured |-> FALSE]

\* a call of IsModelSupported; the second one is made after an entry was added
IsModelSupportedCall ==
  /\ obs.op = "IsModelSupported"
  /\ Len(obs.results) = IF obs.added THEN 1 ELSE 0
  /\ obs' = [obs EXCEPT !.results =
               Append(@, IsModelSupported(providers[1], obs.model))]
  /\ UNCHANGED <<now, settings, bl, providers, req, inflight, shadow>>

\* the user adds one entry to the provider's supportedModels
AddSupportedModel(entry) ==
  /\ obs.op = "IsModelSupported" /\ Len(obs.results) = 1 /\ ~obs.added
  /\ providers' = <<[providers[1] EXCEPT !.supportedModels = @ \cup {entry}]>>
  /\ obs' = [obs EXCEPT !.added = TRUE, !.entry = entry,
                        !.unconfigured = /\ providers[1].supportedModels = {}
                                         /\ MappingKeys(providers[1]) = {}]
  /\ UNCHANGED <<now, settings, bl, req, inflight, shadow>>

\* a call of GetEffectiveModel, and the same call once more
GetEffectiveModelCall ==
  /\ obs.op = "GetEffectiveModel" /\ Len(obs.results) < 2
  /\ \E effectiveModel \in GetEffectiveModel(providers[1], obs.model) :
       obs' = [obs EXCEPT !.results = Append(@, effectiveModel)]
  /\ UNCHANGED <<now, settings, bl, providers, req, inflight, shadow>>

ResolverNext ==
  \/ IsModelSupportedCall
  \/ \E entry \in Patterns : AddSupportedModel(entry)
  \/ GetEffectiveModelCall

ResolverSpec == ResolverInit /\ [][ResolverNext]_vars

(***************************************************************************)
(* ProviderService: the provider list of one client kind as persisted in   *)
(* its JSON file, and the calls that write it.  ps.mu is a sync.Mutex: a   *)
(* Lock on it waits until the mutex is free, whoever holds it.  inflight   *)
(* holds the mutex and the call that is in progress; obs holds the latest  *)
(* call that has returned.                                                 *)
(***************************************************************************)
Stored(id, name, supportedModels, modelMapping) ==
  [id |-> id, name |-> name, enabled |-> TRUE, apiUrl |-> TRUE, apiKey |-> TRUE,
   level |-> 1, supportedModels |-> supportedModels,
   modelMapping |-> modelMapping]

\* the providers a caller passes to SaveProviders: one without model
\* configuration, one with a mapping of a model to itself, one with a
\* verified mapping
StorePool ==
  { Stored(1, "P1", {}, <<>>),
    Stored(2, "P2", {<<"a">>}, (<<"a">> :> <<"a">>)),
    Stored(3, "P3", {<<"b">>}, (<<"a">> :> <<"b">>)) }

SaveInputs == UNION {[1..k -> StorePool] : k \in 0..MaxProviders}
SourceIDs == 1..4

getDefaultProviders ==
  <<[Stored(1, "BMAI", {}, <<>>) EXCEPT !.apiKey = FALSE]>>

\* LoadProviders: a missing or empty file, or an empty list, reads as the
\* default list
LoadProviders(stored) == IF stored = <<>> THEN getDefaultProviders ELSE stored

\* SaveProviders: the providers of the list with validation findings
validationErrors(list) ==
  {i \in 1..Len(list) : ValidateConfiguration(list[i]) # {}}

\* SaveProviders: the file contents after the call
persistedValidOnly(stored, list) ==
  SelectSeq(list, LAMBDA p : ValidateConfiguration(p) = {})

persisted(stored, list) ==
  IF validationErrors(list) # {} THEN stored ELSE list

\* DuplicateProvider, steps 3 to 5: the clone of source within list
maxID(list) ==
  IF list = <<>> THEN 0
  ELSE Max(0, CHOOSE id \in {list[i].id : i \in 1..Len(list)} :
                \A i \in 1..Len(list) : list[i].id <= id)

cloned(list, source) ==
  [source EXCEPT !.id = maxID(list) + 1, !.name = source.name \o " (copy)",
                 !.enabled = FALSE]

NoStoreCall == [mu |-> FALSE, op |-> "none", pc |-> "idle", list |-> <<>>]
NoReturn == [op |-> "none", err |-> FALSE, list |-> <<>>]

\* a caller invokes SaveProviders; its first statement is ps.mu.Lock()
CallSaveProviders(list) ==
  /\ inflight.pc = "idle"
  /\ inflight' = [inflight EXCEPT !.op = "SaveProviders", !.pc = "Lock",
                                  !.list = list]
  /\ UNCHANGED <<now, settings, bl, providers, req, shadow, obs>>

\* SaveProviders once ps.mu.Lock() has returned: validation, the write and
\* the deferred Unlock, then the return to whichever call invoked it
SaveProvidersBody ==
  /\ inflight.pc = "Lock" /\ ~inflight.mu
  /\ providers' = persisted(providers, inflight.list)
  /\ obs' = [op |-> inflight.op, err |-> validationErrors(inflight.list) # {},
             list |-> inflight.list]
  /\ inflight' = NoStoreCall
  /\ UNCHANGED <<now, settings, bl, req, shadow>>

\* DuplicateProvider up to its call of SaveProviders: Lock, load, lookup of
\* the source, clone; with no such source it returns an error and unlocks
CallDuplicateProvider(sourceID) ==
  /\ inflight.pc = "idle" /\ ~inflight.mu
  /\ \E list \in {LoadProviders(providers)} :
       IF \A i \in 1..Len(list) : list[i].id # sourceID
       THEN /\ obs' = [op |-> "DuplicateProvider", err |-> TRUE, list |-> <<>>]
            /\ UNCHANGED inflight
       ELSE \E source \in {list[CHOOSE i \in 1..Len(list) :
                                  /\ list[i].id = sourceID
                                  /\ \A j \in 1..(i-1) : list[j].id # sourceID]} :
            /\ inflight' = [mu |-> TRUE, op |-> "DuplicateProvider",
                            pc |-> "Lock",
                            list |-> Append(list, cloned(list, source))]
            /\ UNCHANGED obs
  /\ UNCHANGED <<now, settings, bl, providers, req, shadow>>

StoreInit ==
  /\ now = 0
  /\ settings = InitialSettings([failureThreshold |-> 1, fallbackMode |-> "fixed",
                                 enableLevelBlacklist |-> FALSE])
  /\ bl = [p \in Names |-> NoRow]
  /\ providers = <<>>
  /\ req = NoReq
  /\ inflight = NoStoreCall
  /\ shadow = NULL
  /\ obs = NoReturn

StoreNext ==
  \/ \E list \in SaveInputs : CallSaveProviders(list)
  \/ SaveProvidersBody
  \/ \E sourceID \in SourceIDs : CallDuplicateProvider(sourceID)

\* a call that can take its next step eventually takes it
StoreSpec == StoreInit /\ [][StoreNext]_vars /\ WF_vars(SaveProvidersBody)

(***************************************************************************)
(* forwardRequest copying an upstream response to the client.  The copy    *)
(* hands every chunk it has read to the hook made by ReqeustLogHook and    *)
(* writes what the hook returns, for as long as the hook answers true.  A  *)
(* chunk is described by what it is and by the number of tokens a usage    *)
(* parser reads from its data: lines.  obs holds the upstream outcome, the *)
(* chunks received and relayed, and the usage accumulated so far.          *)
(***************************************************************************)
Payloads ==
  {[kind |-> "empty", tokens |-> 0], [kind |-> "nonJSON", tokens |-> 0],
   [kind |-> "partialJSON", tokens |-> 0], [kind |-> "partialJSON", tokens |-> 1],
   [kind |-> "dataLines", tokens |-> 0], [kind |-> "dataLines", tokens |-> 2]}

\* parseEventPayload with either parser: gjson reads 0 where it finds no number
parseEventPayload(payload, usage) == usage + payload.tokens

\* the hook: whether the copy goes on, the bytes to write, the usage
ReqeustLogHookStrict(data, usage) ==
  [continue |-> data.kind = "dataLines", data |-> data,
   usage |-> parseEventPayload(data, usage)]

ReqeustLogHook(data, usage) ==
  [continue |-> TRUE, data |-> data, usage |-> parseEventPayload(data, usage)]

\* forwardRequest reaches resp.ToHttpResponseWriter
copies(outcome) ==
  /\ ~outcome.err
  /\ (outcome.status = 0 \/ (outcome.status >= 200 /\ outcome.status < 300))

TelemetryInit ==
  /\ Idle0
  /\ providers = <<>>
  /\ \E outcome \in Outcomes :
       obs = [op |-> "forwardRequest", outcome |-> outcome, received |-> <<>>,
              relayed |-> <<>>, usage |-> 0, aborted |-> FALSE,
              returned |-> FALSE, ok |-> FALSE]

\* one chunk of the upstream response goes through the copy and its hook
ToHttpResponseWriterChunk(data) ==
  /\ ~obs.returned /\ copies(obs.outcome) /\ Len(obs.received) < MaxChunks
  /\ \E hook \in {ReqeustLogHook(data, obs.usage)} :
       obs' = [obs EXCEPT
                 !.received = Append(@, data),
                 !.usage = IF obs.aborted THEN @ ELSE hook.usage,
                 !.relayed = IF obs.aborted \/ ~hook.continue THEN @
                             ELSE Append(@, hook.data),
                 !.aborted = @ \/ ~hook.continue]
  /\ UNCHANGED <<now, settings, bl, providers, req, inflight, shadow>>

forwardRequestReturn ==
  /\ ~obs.returned
  /\ obs' = [obs EXCEPT !.returned = TRUE, !.ok = forwardRequest(obs.outcome)]
  /\ UNCHANGED <<now, settings, bl, providers, req, inflight, shadow>>

TelemetryNext ==
  \/ \E data \in Payloads : ToHttpResponseWriterChunk(data)
  \/ forwardRequestReturn

TelemetrySpec == TelemetryInit /\ [][TelemetryNext]_vars

(***************************************************************************)
(* detectGeminiAuthType on one Gemini provider.  Names and URLs are taken  *)
(* in lower case from small sets that decide every comparison the function *)
(* makes: equality with "google", the prefix "google ", and the presence   *)
(* of one of the PackyCode keywords.                                       *)
(***************************************************************************)
GeminiNames == {"google", "google official", "googleplex", "packycode", "custom"}
GeminiURLs == {"", "https://custom.api.com", "https://www.packyapi.com"}
PartnerPromotionKeys == {"", "google-official", "packycode", "other"}

hasGooglePrefix(nameLower) == nameLower = "google official"
containsPackyKeyword(text) == text \in {"packycode", "https://www.packyapi.com"}

GeminiProviders ==
  [name : GeminiNames, baseURL : GeminiURLs, websiteURL : GeminiURLs,
   apiKey : BOOLEAN, partnerPromotionKey : PartnerPromotionKeys]

detectGeminiAuthType(provider) ==
  IF provider.partnerPromotionKey = "google-official" THEN "oauth-personal"
  ELSE IF provider.partnerPromotionKey = "packycode" THEN "packycode"
  ELSE IF provider.name = "google" \/ hasGooglePrefix(provider.name)
  THEN "oauth-personal"
  ELSE IF \/ containsPackyKeyword(provider.name)
          \/ containsPackyKeyword(provider.websiteURL)
          \/ containsPackyKeyword(provider.baseURL)
  THEN "packycode"
  ELSE "generic"

DetectInit ==
  /\ Idle0
  /\ providers = <<>>
  /\ \E provider \in GeminiProviders :
       obs = [op |-> "detectGeminiAuthType", provider |-> provider,
              returned |-> FALSE, result |-> ""]

detectGeminiAuthTypeCall ==
  /\ obs.op = "detectGeminiAuthType" /\ ~obs.returned
  /\ obs' = [obs EXCEPT !.returned = TRUE,
                        !.result = detectGeminiAuthType(obs.provider)]
  /\ UNCHANGED <<now, settings, bl, providers, req, inflight, shadow>>

DetectNext == detectGeminiAuthTypeCall

DetectSpec == DetectInit /\ [][DetectNext]_vars

(***************************************************************************)
(* GeminiService: the provider list and the IDs its operations give out.   *)
(* An ID is the sequence of the parts that "-" separates in the string;    *)
(* the clock of this specification counts seconds (time.Now().Unix()).     *)
(***************************************************************************)
MaxGeminiProviders == 3
GeminiMaxTime == 1
MaxCopyDepth == 1

\* %d of fmt.Sprintf
Itoa(n) == <<"0", "1", "2", "3", "4", "5", "6", "7", "8", "9">>[n + 1]

\* strings.ToLower(strings.ReplaceAll(presetName, " ", "-")) of the presets
GeminiPresetSlug ==
  [preset \in {"Google Official", "PackyCode"} |->
     IF preset = "Google Official" THEN <<"google", "official">>
     ELSE <<"packycode">>]

\* the IDs a caller of AddProvider passes (<<>>: none)
GeminiIDs == {<<>>, <<"gemini", "2">>}

GeminiProv(id, enabled) == [id |-> id, enabled |-> enabled]

getDefaultGeminiProviders == <<GeminiProv(<<"gemini", "bmai", "1">>, TRUE)>>

hasID(list, id) == \E i \in 1..Len(list) : list[i].id = id

\* AddProvider: the error flag and the list after the call
GeminiAddProvider(list, provider) ==
  IF hasID(list, provider.id) THEN [err |-> TRUE, list |-> list]
  ELSE [err |-> FALSE,
        list |-> Append(list,
                   IF provider.id = <<>>
                   THEN [provider EXCEPT !.id = <<"gemini", Itoa(Len(list) + 1)>>]
                   ELSE provider)]

\* DeleteProvider
GeminiDeleteProvider(list, id) ==
  IF ~hasID(list, id) THEN [err |-> TRUE, list |-> list]
  ELSE LET i == CHOOSE k \in 1..Len(list) :
                  list[k].id = id /\ \A j \in 1..(k - 1) : list[j].id # id
       IN [err |-> FALSE,
           list |-> SubSeq(list, 1, i - 1) \o SubSeq(list, i + 1, Len(list))]

\* CreateProviderFromPreset
GeminiCreateProviderFromPreset(list, presetName) ==
  IF presetName \notin DOMAIN GeminiPresetSlug THEN [err |-> TRUE, list |-> list]
  ELSE GeminiAddProvider(list,
         GeminiProv(<<"gemini">> \o GeminiPresetSlug[presetName]
                      \o <<Itoa(Len(list) + 1)>>, FALSE))

\* DuplicateProvider at Unix time t
GeminiDuplicateProvider(list, sourceID, t) ==
  IF ~hasID(list, sourceID) THEN [err |-> TRUE, list |-> list]
  ELSE [err |-> FALSE,
        list |-> Append(list, GeminiProv(sourceID \o <<"copy", Itoa(t)>>, FALSE))]

\* a call returns: the list is replaced and the call is noted
GeminiReturn(op, result) ==
  /\ Len(result.list) <= MaxGeminiProviders
  /\ providers' = result.list
  /\ obs' = [op |-> op, err |-> result.err]
  /\ UNCHANGED <<now, settings, bl, req, inflight, shadow>>

GeminiInit ==
  /\ Idle0
  /\ providers = getDefaultGeminiProviders
  /\ obs = [op |-> "none", err |-> FALSE]

GeminiTick ==
  /\ now < GeminiMaxTime
  /\ now' = now + 1
  /\ UNCHANGED <<settings, bl, providers, req, inflight, shadow, obs>>

GeminiAddProviderCall(id) ==
  GeminiReturn("AddProvider", GeminiAddProvider(providers, GeminiProv(id, TRUE)))

GeminiDeleteProviderCall(id) ==
  GeminiReturn("DeleteProvider", GeminiDeleteProvider(providers, id))

GeminiCreateProviderFromPresetCall(presetName) ==
  GeminiReturn("CreateProviderFromPreset",
               GeminiCreateProviderFromPreset(providers, presetName))

\* (a copy is copied again at most MaxCopyDepth - 1 times)
GeminiDuplicateProviderCall(sourceID) ==
  /\ Cardinality({k \in 1..Len(sourceID) : sourceID[k] = "copy"}) < MaxCopyDepth
  /\ GeminiReturn("DuplicateProvider",
               GeminiDuplicateProvider(providers, sourceID, now))

GeminiNext ==
  \/ GeminiTick
  \/ \E id \in GeminiIDs : GeminiAddProviderCall(id)
  \/ \E i \in 1..Len(providers) : GeminiDeleteProviderCall(providers[i].id)
  \/ \E presetName \in DOMAIN GeminiPresetSlug :
       GeminiCreateProviderFromPresetCall(presetName)
  \/ \E i \in 1..Len(providers) : GeminiDuplicateProviderCall(providers[i].id)

GeminiSpec == GeminiInit /\ [][GeminiNext]_vars

(***************************************************************************)
(* Properties of the blacklist tracker, on the tracked pair.               *)
(***************************************************************************)

\* C1 (as stated): with the blacklist enabled and FailureThreshold = 3, of
\* three RecordFailure calls on a pair that had no record, each outside the
\* dedupe window of the previous one and with no other call in between, the
\* first and the second leave IsBlacklisted false and the third makes it true.
C1_ThirdFailureBlacklists_AsStated ==
  \A p \in Tracked :
    (settings.enableBlacklist /\ settings.failureThreshold = 3
       /\ settings.levelFailureThreshold = 3)
    => /\ obs.n \in {1, 2} => ~IsBlacklisted(bl[p], settings, now)
       /\ (obs.n = 3 /\ obs.at = now) => IsBlacklisted(bl[p], settings, now)

\* C1 (amended): the same, under a policy that can blacklist: level mode, or
\* fixed mode with a fallbackMode other than "none".
C1_ThirdFailureBlacklists ==
  \A p \in Tracked :
    (settings.enableBlacklist /\ settings.failureThreshold = 3
       /\ settings.levelFailureThreshold = 3
       /\ (settings.enableLevelBlacklist \/ settings.fallbackMode # "none"))
    => /\ obs.n \in {1, 2} => ~IsBlacklisted(bl[p], settings, now)
       /\ (obs.n = 3 /\ obs.at = now) => IsBlacklisted(bl[p], settings, now)

C1_Witness ==
  \E p \in Tracked :
    /\ settings.enableBlacklist /\ settings.failureThreshold = 3
    /\ settings.levelFailureThreshold = 3
    /\ settings.enableLevelBlacklist \/ settings.fallbackMode # "none"
    /\ obs.n = 3 /\ obs.at = now /\ obs.op = "RecordFailure" /\ obs.count = 2
    /\ bl[p].blacklistedUntil # NULL /\ bl[p].blacklistedUntil > now

\* C8 (as stated): whenever the blacklist is enabled, two RecordFailure calls
\* on a pair that fall inside one dedupe window are never both counted.
C8_DedupeWindow_AsStated == ~obs.burst

\* C8 (amended): in level mode, two RecordFailure calls on a pair that fall
\* inside one dedupe window are never both counted: the second leaves the
\* record unchanged.
C8_DedupeWindow == settings.enableLevelBlacklist => ~obs.burst

\* a second failure inside the window of a counted one, ignored in level mode
C8_Witness ==
  \E p \in Tracked :
    /\ settings.enableLevelBlacklist
    /\ obs.op = "RecordFailure" /\ obs.enabled /\ ~obs.changed
    /\ obs.countedAt # NULL /\ obs.at - obs.countedAt < DedupeWindow
    /\ bl[p].exists /\ bl[p].blacklistedUntil = NULL /\ bl[p].failureCount = 1

\* C9 (as stated): in level mode a RecordFailure call that brings failureCount
\* to the threshold raises blacklistLevel by 2 when a recovery is recorded and
\* the call is within the jump-penalty window of it, and by exactly 1
\* otherwise, capped at 5.
C9_JumpPenalty_AsStated ==
  \A p \in Tracked :
    (/\ settings.enableLevelBlacklist
     /\ obs.op = "RecordFailure" /\ obs.enabled /\ obs.changed
     /\ obs.count + 1 >= settings.levelFailureThreshold)
    => bl[p].blacklistLevel =
         Min(5, obs.level +
                (IF bl[p].lastRecoveredAt # NULL
                    /\ obs.at - bl[p].lastRecoveredAt <= JumpPenaltyWindow
                 THEN 2 ELSE 1))

\* C10: in level mode a RecordSuccess on a record whose level is >= 3 and whose
\* recorded recovery lies at least the forgiveness duration before the call
\* leaves blacklistLevel at 0.
C10_Forgiveness ==
  \A p \in Tracked :
    (/\ settings.enableLevelBlacklist
     /\ obs.op = "RecordSuccess" /\ obs.level >= 3
     /\ bl[p].lastRecoveredAt # NULL
     /\ obs.at - bl[p].lastRecoveredAt >= ForgivenessWindow)
    => bl[p].blacklistLevel = 0

C10_Witness ==
  \E p \in Tracked :
    /\ settings.enableLevelBlacklist
    /\ obs.op = "RecordSuccess" /\ obs.level >= 3 /\ obs.changed
    /\ bl[p].lastRecoveredAt # NULL
    /\ obs.at - bl[p].lastRecoveredAt >= ForgivenessWindow
    /\ bl[p].blacklistLevel = 0

\* C11: in level mode a RecordSuccess call on a record with a recorded
\* recovery, forgiveness apart, never raises blacklistLevel and lowers it by
\* at most the number of whole hours since the recovery not yet counted in
\* lastDegradeHour; a call in the hour lastDegradeHour already counts leaves
\* blacklistLevel unchanged.
C11_HourlyDegradeOnce ==
  [][\A p \in Tracked :
       (/\ settings.enableLevelBlacklist /\ settings' = settings
        /\ obs'.op = "RecordSuccess" /\ obs'.at = now /\ now' = now
        /\ bl[p].lastRecoveredAt # NULL
        /\ ~(bl[p].blacklistLevel >= 3
              /\ now - bl[p].lastRecoveredAt >= ForgivenessWindow))
       => /\ bl'[p].blacklistLevel <= bl[p].blacklistLevel
          /\ bl[p].blacklistLevel - bl'[p].blacklistLevel
               <= Max(0, ((now - bl[p].lastRecoveredAt) \div HourUnits)
                         - bl[p].lastDegradeHour)]_vars

\* a second RecordSuccess in an hour that has already been degraded for,
\* on a record whose level is still above 0
C11_Witness ==
  \E p \in Tracked :
    /\ settings.enableLevelBlacklist
    /\ obs.op = "RecordSuccess" /\ obs.at = now /\ ~obs.changed
    /\ obs.level > 0 /\ bl[p].blacklistLevel = obs.level
    /\ bl[p].lastRecoveredAt # NULL /\ bl[p].lastDegradeHour >= 1
    /\ (now - bl[p].lastRecoveredAt) \div HourUnits = bl[p].lastDegradeHour

\* C13 (as stated): in every mode that can blacklist, a RecordFailure call
\* that brings failureCount to the threshold and blacklists the provider
\* leaves the stored failureCount at 0 and autoRecovered false.
C13_BlacklistingResetsCount_AsStated ==
  \A p \in Tracked :
    (/\ obs.op = "RecordFailure" /\ obs.changed
     /\ bl[p].blacklistedAt # NULL /\ bl[p].blacklistedAt = obs.at)
    => bl[p].failureCount = 0 /\ ~bl[p].autoRecovered

\* C14 (as stated): a record that is currently blacklisted (blacklistedUntil
\* strictly in the future) has blacklistLevel between 1 and 5, and a record
\* with blacklistLevel 0 is never currently blacklisted.
C14_BlacklistedHasLevel_AsStated ==
  \A p \in Tracked :
    LET blacklisted == bl[p].blacklistedUntil # NULL /\ bl[p].blacklistedUntil > now
    IN /\ blacklisted => bl[p].blacklistLevel \in 1..5
       /\ bl[p].blacklistLevel = 0 => ~blacklisted

\* C14 (amended): in level mode the RecordFailure call that blacklists a
\* provider leaves its record with blacklistedUntil strictly in the future
\* and blacklistLevel between 1 and 5.
C14_BlacklistedHasLevel ==
  \A p \in Tracked :
    (/\ settings.enableLevelBlacklist
     /\ obs.op = "RecordFailure" /\ obs.changed
     /\ bl[p].blacklistedAt # NULL /\ bl[p].blacklistedAt = obs.at)
    => /\ bl[p].blacklistedUntil # NULL /\ bl[p].blacklistedUntil > obs.at
       /\ bl[p].blacklistLevel \in 1..5

\* a healthy level-0 record that a level-mode RecordFailure has just blacklisted
C14_Witness ==
  \E p \in Tracked :
    /\ settings.enableLevelBlacklist
    /\ obs.op = "RecordFailure" /\ obs.changed /\ obs.at = now /\ obs.level = 0
    /\ bl[p].blacklistedAt = now /\ bl[p].blacklistedUntil > now
    /\ bl[p].blacklistLevel = 1

\* C15: after any sequence of RecordFailure, RecordSuccess,
\* AutoRecoverExpired, ManualUnblockAndReset and ManualResetLevel calls the
\* blacklistLevel of a record is between 0 and 5.
C15_LevelRange ==
  \A p \in Tracked : bl[p].blacklistLevel \in 0..MaxLevel

\* a jump penalty on a level-4 record, capped at 5
C15_Witness ==
  \E p \in Tracked :
    /\ settings.enableLevelBlacklist
    /\ obs.op = "RecordFailure" /\ obs.changed /\ obs.level = 4
    /\ bl[p].blacklistedAt = obs.at
    /\ bl[p].lastRecoveredAt # NULL
    /\ obs.at - bl[p].lastRecoveredAt <= JumpPenaltyWindow
    /\ bl[p].blacklistLevel = MaxLevel

C2_FirstOfLowestLevel ==
  (req.served /\ req.candidates # {} /\ req.status # 500)
  => /\ Len(req.contacted) >= 1
     /\ \E i \in req.candidates :
          /\ req.contacted[1] = providers[i].name
          /\ \A j \in req.candidates :
               LET li == IF providers[i].level <= 0 THEN 1 ELSE providers[i].level
                   lj == IF providers[j].level <= 0 THEN 1 ELSE providers[j].level
               IN li < lj \/ (li = lj /\ i <= j)

\* every level-1 provider is blacklisted and a level-2 provider was selected
C2_Witness ==
  /\ req.served /\ Len(req.contacted) = 1
  /\ \E i \in req.blacklisted : providers[i].level <= 1
  /\ \A i \in 1..Len(providers) :
       (providers[i].enabled /\ providers[i].level <= 1) => i \in req.blacklisted
  /\ \E i \in req.candidates :
       providers[i].name = req.contacted[1] /\ providers[i].level = 2

C4_FailoverWithinRequest ==
  (req.served /\ Len(req.contacted) >= 1
     /\ (req.outcome.err \/ req.outcome.copyErr
           \/ ~(req.outcome.status = 0 \/ req.outcome.status \in 200..299)))
  => \A i \in req.candidates :
       \E k \in 1..Len(req.contacted) : req.contacted[k] = providers[i].name

C7_IsBlacklisted ==
  \A p \in Names :
    IsBlacklisted(bl[p], settings, now)
      = (settings.enableBlacklist /\ bl[p].exists
           /\ bl[p].blacklistedUntil # NULL /\ bl[p].blacklistedUntil > now)

\* a request that kept a candidate whose period had run out, with no sweep
C7_Witness ==
  /\ req.served /\ req.at = now /\ settings.enableBlacklist
  /\ \E i \in req.candidates :
       LET r == bl[providers[i].name] IN
       /\ r.blacklistedUntil # NULL /\ r.blacklistedUntil <= now
       /\ ~r.autoRecovered
       /\ \A k \in 1..Len(req.contacted) : req.contacted[k] # providers[i].name

C20_AdvisoryFindingsKeepProvider ==
  req.served =>
    \A i \in 1..Len(providers) :
      (/\ providers[i].enabled /\ providers[i].apiUrl /\ providers[i].apiKey
       /\ "invalidTarget" \notin ValidateConfiguration(providers[i])
       /\ ~bl[providers[i].name].exists
       /\ \A m \in ReqModels : m = <<>> \/ IsModelSupported(providers[i], m))
      => i \in req.candidates

(***************************************************************************)
(* Properties of concurrent calls on one pair.                             *)
(***************************************************************************)
allDone == \A g \in Goroutines : inflight.call[g].pc = "done"

\* the record after the calls of goroutines g and h, run one after the other
\* on the record the first of them found
inOrder(g, h) ==
  computed(inflight.call[h].op,
           computed(inflight.call[g].op, inflight.base, settings,
                    inflight.call[g].t),
           settings, inflight.call[h].t)

\* C12: after two concurrent calls (RecordFailure, RecordSuccess or
\* AutoRecoverExpired) on one pair that both returned without an error, the
\* record is the one that the two calls produce in one of the two sequential
\* orders.
C12_Linearizable ==
  (allDone /\ inflight.errors = 0)
  => bl[ConcPair] \in {inOrder(1, 2), inOrder(2, 1)}

\* C16: the pair has at most one provider_blacklist row, also after several
\* goroutines have reported its first failure at once.
C16_OneRecordPerPair ==
  /\ inflight.inserts <= 1
  /\ bl[ConcPair].exists <=> inflight.inserts = 1

\* two goroutines that both found no record and both tried to INSERT
C16_Witness ==
  /\ allDone
  /\ \A g \in Goroutines :
       inflight.call[g].op = "RecordFailure" /\ ~inflight.call[g].snap.exists
  /\ inflight.errors = 1 /\ inflight.inserts = 1
  /\ bl[ConcPair].exists

(***************************************************************************)
(* Properties of the sweep.                                                *)
(***************************************************************************)

\* C18: sweeps inserted at any points of a sequence of RecordFailure and
\* RecordSuccess calls change neither the result of a later IsBlacklisted
\* call nor the call at which the provider is next blacklisted: IsBlacklisted
\* answers the same on the swept record and on the record of the same calls
\* without sweeps.
C18_SweepIsBookkeeping ==
  IsBlacklisted(bl[ConcPair], settings, now) = IsBlacklisted(shadow, settings, now)

(***************************************************************************)
(* Properties of the 404 answer and of the model rewrite.                  *)
(***************************************************************************)

\* C21: a request for which no provider is eligible is answered 404 and
\* nothing is forwarded, and the body of the answer tells the cause: when
\* every otherwise eligible provider was skipped as blacklisted, the body
\* differs from the one the same request gets with no providers at all, and
\* from the one it gets when those providers do not support the model
\* instead of being blacklisted.
C21_NotFoundTellsCause ==
  (req.served /\ req.candidates = {}) =>
    /\ req.status = 404 /\ req.contacted = <<>> /\ req.calls = <<>>
    /\ req.blacklisted # {} =>
         LET unsupporting ==
               [i \in 1..Len(providers) |->
                  IF i \in req.blacklisted
                  THEN [providers[i] EXCEPT !.supportedModels = {<<"z">>},
                                            !.modelMapping = <<>>]
                  ELSE providers[i]]
         IN /\ req.body # notFoundBody(<<>>, {}, req.model)
            /\ req.model # <<>> =>
                 req.body # notFoundBody(unsupporting, {}, req.model)

\* C22: the body forwarded upstream carries as its model field the effective
\* model of the selected provider for the requested model: the mapped name
\* when a mapping applies, the requested name when none does.
C22_ForwardedModelIsEffective ==
  (req.served /\ req.contacted # <<>>) =>
    req.forwarded \in
      GetEffectiveModel(providers[firstProvider(req.candidates)], req.model)

(***************************************************************************)
(* Properties of the model resolver.                                       *)
(***************************************************************************)

\* C24: matchWildcard(pattern, text) is equality for a pattern without a
\* star; for a pattern with one star it holds exactly when text starts with
\* the part before the star and ends with the part after it; for a pattern
\* with two or more stars it is false.
C24_MatchWildcard ==
  (obs.op = "matchWildcard" /\ obs.returned) =>
    LET p == obs.pattern
        t == obs.text
        stars == {i \in 1..Len(p) : p[i] = "*"}
    IN IF stars = {} THEN obs.result <=> (p = t)
       ELSE IF Cardinality(stars) = 1
       THEN LET i == CHOOSE i \in stars : TRUE
                before == i - 1
                after == Len(p) - i
            IN obs.result <=>
                 /\ before <= Len(t) /\ \A j \in 1..before : t[j] = p[j]
                 /\ after <= Len(t)
                 /\ \A j \in 1..after : t[Len(t) - after + j] = p[i + j]
       ELSE ~obs.result

\* a one-star pattern matching a text in which its two parts overlap
C24_Witness ==
  /\ obs.op = "matchWildcard" /\ obs.returned /\ obs.result
  /\ obs.pattern = <<"a", "*", "a">> /\ obs.text = <<"a">>

\* C23 (as stated): a model the provider supports is still supported after
\* any entry is added to the provider's supportedModels.
C23_AddingKeepsSupport_AsStated ==
  (obs.op = "IsModelSupported" /\ Len(obs.results) = 2 /\ obs.results[1])
  => obs.results[2]

\* C23: a model supported by a provider that has a supportedModels entry or a
\* modelMapping key is still supported after any entry is added to its
\* supportedModels.
C23_AddingKeepsSupport ==
  (obs.op = "IsModelSupported" /\ Len(obs.results) = 2 /\ obs.results[1]
   /\ ~obs.unconfigured)
  => obs.results[2]

\* a model supported through a mapping key, after an entry that does not
\* match it was added to the whitelist
C23_Witness ==
  /\ obs.op = "IsModelSupported" /\ obs.results = <<TRUE, TRUE>>
  /\ ~obs.unconfigured
  /\ obs.model = <<"a">> /\ obs.entry = <<"b", "b">>
  /\ <<"a">> \in MappingKeys(providers[1])

\* C25: GetEffectiveModel(provider, m) returns modelMapping[m] when m is a
\* key of modelMapping, also when wildcard keys match m; otherwise, when a
\* wildcard key matches m, the value of such a key with its star replaced by
\* the segment of m that the key's star stands for; otherwise m.  The same
\* call made again returns the same result.
C25_GetEffectiveModel ==
  (obs.op = "GetEffectiveModel" /\ obs.results # <<>>) =>
    LET p == providers[1]
        m == obs.model
        matching == {k \in MappingKeys(p) : matchWildcard(k, m)}
        segment(k) ==
          IF Len(PrefixOf(k)) + Len(SuffixOf(k)) > Len(m) THEN <<>>
          ELSE SubSeq(m, Len(PrefixOf(k)) + 1, Len(m) - Len(SuffixOf(k)))
        substituted(k) ==
          LET value == p.modelMapping[k]
          IN IF ~Contains(value, Star) THEN value
             ELSE SubSeq(value, 1, FirstStar(value) - 1) \o segment(k)
                  \o SubSeq(value, FirstStar(value) + 1, Len(value))
    IN /\ \A n \in 1..Len(obs.results) :
            IF m \in MappingKeys(p) THEN obs.results[n] = p.modelMapping[m]
            ELSE IF matching # {}
            THEN \E k \in matching : obs.results[n] = substituted(k)
            ELSE obs.results[n] = m
       /\ Len(obs.results) = 2 => obs.results[1] = obs.results[2]

(***************************************************************************)
(* Properties of the provider store.                                       *)
(***************************************************************************)

\* C26: a SaveProviders call whose list holds a provider that fails
\* validation returns an error and leaves the persisted list as it was.
C26_InvalidSaveWritesNothing ==
  [][(/\ inflight.op = "SaveProviders" /\ inflight.pc = "Lock"
      /\ inflight'.pc = "idle"
      /\ validationErrors(inflight.list) # {})
     => (providers' = providers /\ obs'.op = "SaveProviders" /\ obs'.err)]_vars

\* a rejected list of a valid and an invalid provider, over a saved list
C26_Witness ==
  /\ obs.op = "SaveProviders" /\ obs.err
  /\ Len(obs.list) = 2
  /\ ValidateConfiguration(obs.list[1]) = {}
  /\ ValidateConfiguration(obs.list[2]) # {}
  /\ providers # <<>> /\ providers # obs.list

\* C27: a DuplicateProvider call for an existing source id returns.
C27_DuplicateReturns ==
  (inflight.op = "DuplicateProvider") ~> (inflight.op # "DuplicateProvider")

(***************************************************************************)
(* Properties of the telemetry hook.                                       *)
(***************************************************************************)

\* C28: whatever the upstream payload is (empty, not JSON, partly JSON or
\* well-formed data: lines), the chunks relayed to the client are the chunks
\* received, the hook never stops the copy, and the success of the request
\* is decided by the status, the transport and the copy result alone.
C28_TelemetryOffDataPath ==
  /\ obs.relayed = obs.received
  /\ ~obs.aborted
  /\ obs.returned => (obs.ok <=> forwardRequest(obs.outcome))

\* a successful request whose response held a chunk that is not JSON and a
\* chunk that is partly JSON
C28_Witness ==
  /\ obs.returned /\ obs.ok /\ Len(obs.relayed) = 2
  /\ obs.relayed[1].kind = "nonJSON" /\ obs.relayed[2].kind = "partialJSON"

(***************************************************************************)
(* Properties of the Gemini auth-type detection.                           *)
(***************************************************************************)

\* C29: detectGeminiAuthType answers oauth-personal for a Google-official
\* provider (partner key google-official, or name google or starting with
\* "google "); packycode for a provider with a PackyCode marker; and, for a
\* provider with neither, gemini-api-key when it has an API key and no base
\* URL, generic when it has a base URL and an API key.
C29_DetectGeminiAuthType ==
  (obs.op = "detectGeminiAuthType" /\ obs.returned) =>
    LET p == obs.provider
        official == \/ p.partnerPromotionKey = "google-official"
                    \/ p.name \in {"google", "google official"}
        packy == \/ p.partnerPromotionKey = "packycode"
                 \/ \E text \in {p.name, p.websiteURL, p.baseURL} :
                      text \in {"packycode", "https://www.packyapi.com"}
    IN /\ (official /\ ~packy) => obs.result = "oauth-personal"
       /\ (packy /\ ~official) => obs.result = "packycode"
       /\ (~official /\ ~packy /\ p.apiKey /\ p.baseURL = "")
            => obs.result = "gemini-api-key"
       /\ (~official /\ ~packy /\ p.apiKey /\ p.baseURL # "")
            => obs.result = "generic"

(***************************************************************************)
(* Frame of a failure reported for a blacklisted provider.                 *)
(***************************************************************************)

\* C30: a RecordFailure call for a provider whose record is blacklisted and
\* unexpired leaves the record as it is: failureCount, blacklistLevel,
\* blacklistedAt, blacklistedUntil, lastFailureAt and the dedupe-window
\* anchor are unchanged.
C30_FailureWhileBlacklisted ==
  [][\A p \in Tracked :
       (/\ obs'.op = "RecordFailure" /\ obs'.at = now /\ now' = now
        /\ bl[p].blacklistedUntil # NULL /\ bl[p].blacklistedUntil > now)
       => bl'[p] = bl[p]]_vars

\* a failure reported, with the blacklist enabled, later than the dedupe
\* window of the failure that blacklisted the provider
C30_Witness ==
  \E p \in Tracked :
    /\ obs.op = "RecordFailure" /\ obs.at = now /\ obs.enabled /\ ~obs.changed
    /\ bl[p].blacklistedUntil # NULL /\ bl[p].blacklistedUntil > now
    /\ now - bl[p].blacklistedAt >= DedupeWindow

(***************************************************************************)
(* Frames of the recovery sweep, the manual resets and RecordSuccess.      *)
(***************************************************************************)

\* C31: an AutoRecoverExpired sweep that runs with no concurrent writer
\* leaves every record whose blacklistedUntil has expired and whose
\* autoRecovered is false with autoRecovered = true and failureCount = 0 and
\* every other field as it was, and leaves every other record (unexpired,
\* never blacklisted, already recovered, absent) unchanged.
C31_SweepFrame ==
  [][\A p \in Names :
       (obs'.op = "AutoRecoverExpired" /\ now' = now /\ settings' = settings)
       => bl'[p] =
            IF /\ bl[p].exists /\ bl[p].blacklistedUntil # NULL
               /\ bl[p].blacklistedUntil <= now /\ ~bl[p].autoRecovered
            THEN [bl[p] EXCEPT !.autoRecovered = TRUE, !.failureCount = 0]
            ELSE bl[p]]_vars

\* a sweep has just recovered an expired record that carried a level, a
\* recovery timestamp and a failure count
C31_Witness ==
  \E p \in Tracked :
    /\ obs.op = "AutoRecoverExpired" /\ obs.changed /\ obs.count > 0
    /\ bl[p].autoRecovered /\ bl[p].failureCount = 0
    /\ bl[p].blacklistedUntil # NULL /\ bl[p].blacklistedUntil <= now
    /\ bl[p].blacklistLevel > 0 /\ bl[p].lastRecoveredAt # NULL

\* C32: ManualResetLevel sets blacklistLevel and lastDegradeHour to 0 and
\* leaves every other field (blacklistedAt, blacklistedUntil, failureCount,
\* lastRecoveredAt among them) as it was, so IsBlacklisted answers at every
\* time what it answered before the call; ManualUnblockAndReset leaves the
\* provider not blacklisted, with blacklistLevel 0 and failureCount 0.
C32_LevelOnlyReset ==
  [][\A p \in Tracked :
       (now' = now /\ settings' = settings) =>
         /\ obs'.op = "ManualResetLevel" =>
              /\ bl'[p] = IF bl[p].exists
                          THEN [bl[p] EXCEPT !.blacklistLevel = 0,
                                             !.lastDegradeHour = 0]
                          ELSE bl[p]
              /\ \A t \in 0..(MaxTime + 2) :
                   IsBlacklisted(bl'[p], settings, t)
                     = IsBlacklisted(bl[p], settings, t)
         /\ obs'.op = "ManualUnblockAndReset" =>
              /\ \A t \in 0..(MaxTime + 2) : ~IsBlacklisted(bl'[p], settings, t)
              /\ bl'[p].blacklistLevel = 0 /\ bl'[p].failureCount = 0]_vars

\* ManualResetLevel has just cleared the level of a provider that is still
\* blacklisted
C32_Witness ==
  \E p \in Tracked :
    /\ obs.op = "ManualResetLevel" /\ obs.level > 0 /\ obs.changed /\ ~obs.err
    /\ bl[p].blacklistLevel = 0 /\ bl[p].lastRecoveredAt # NULL
    /\ IsBlacklisted(bl[p], settings, now)

\* C33: RecordSuccess never modifies blacklistedAt or blacklistedUntil: after
\* a success reported for a provider that is blacklisted, IsBlacklisted
\* answers at every time what it answered before, so the provider stays
\* blacklisted until the original expiry.
C33_SuccessKeepsBlacklist ==
  [][\A p \in Tracked :
       (obs'.op = "RecordSuccess" /\ obs'.at = now /\ now' = now
        /\ settings' = settings)
       => /\ bl'[p].blacklistedAt = bl[p].blacklistedAt
          /\ bl'[p].blacklistedUntil = bl[p].blacklistedUntil
          /\ \A t \in 0..(MaxTime + 2) :
               IsBlacklisted(bl'[p], settings, t)
                 = IsBlacklisted(bl[p], settings, t)]_vars

\* a success has just been recorded for a provider that is blacklisted, and
\* it changed the record
C33_Witness ==
  \E p \in Tracked :
    /\ obs.op = "RecordSuccess" /\ obs.at = now /\ obs.changed
    /\ IsBlacklisted(bl[p], settings, now)
    /\ bl[p].blacklistedAt # NULL /\ bl[p].blacklistedAt <= now

(***************************************************************************)
(* The recovery timestamp of successive blacklist periods.                 *)
(***************************************************************************)

\* C34: in level mode, after a RecordSuccess call made when the record's
\* blacklist period had expired, the stored lastRecoveredAt is set and not
\* earlier than that period's blacklistedUntil.
C34_RecoveryStampedPerPeriod ==
  \A p \in Tracked :
    (/\ obs.op = "RecordSuccess" /\ settings.enableLevelBlacklist
     /\ bl[p].exists /\ bl[p].blacklistedUntil # NULL
     /\ bl[p].blacklistedUntil < obs.at)
    => /\ bl[p].lastRecoveredAt # NULL
       /\ bl[p].lastRecoveredAt >= bl[p].blacklistedUntil

(***************************************************************************)
(* The recovery sweep next to a failure that blacklists again.             *)
(***************************************************************************)

\* C35: the UPDATE of an AutoRecoverExpired sweep neither sets autoRecovered
\* nor zeroes failureCount of a record whose blacklistedUntil is strictly in
\* the future at that moment, also when another call has written the record
\* since the sweep read it.
C35_SweepSkipsReblacklisted ==
  [][\A g \in Goroutines :
       (/\ inflight.call[g].op = "AutoRecoverExpired"
        /\ inflight.call[g].pc = "read" /\ inflight'.call[g].pc = "done"
        /\ bl[ConcPair].blacklistedUntil # NULL
        /\ bl[ConcPair].blacklistedUntil > now)
       => /\ bl'[ConcPair].autoRecovered = bl[ConcPair].autoRecovered
          /\ bl'[ConcPair].failureCount = bl[ConcPair].failureCount]_vars

(***************************************************************************)
(* Fixed mode after an expired blacklist period.                           *)
(***************************************************************************)

\* C36: in fixed mode with a threshold above 1, the first RecordFailure call
\* after a blacklist period has expired (no failure has been recorded since
\* the expiry) does not blacklist the provider again.
C36_OneFailureAfterExpiry ==
  [][\A p \in Tracked :
       (/\ obs'.op = "RecordFailure" /\ obs'.at = now /\ now' = now
        /\ settings' = settings
        /\ ~settings.enableLevelBlacklist /\ settings.fallbackMode = "fixed"
        /\ settings.failureThreshold > 1
        /\ bl[p].blacklistedUntil # NULL /\ bl[p].blacklistedUntil <= now
        /\ bl[p].lastFailureAt < bl[p].blacklistedUntil)
       => /\ bl'[p].blacklistedUntil = bl[p].blacklistedUntil
          /\ ~IsBlacklisted(bl'[p], settings, now)]_vars

(***************************************************************************)
(* The first threshold crossing after a manual reset.                      *)
(***************************************************************************)

\* C37: in level mode, the first threshold crossing after a
\* ManualUnblockAndReset (the record has no blacklist period and carries the
\* timestamp of the reset) blacklists the provider at level 1, however soon
\* after the reset it happens.
C37_LevelOneAfterManualReset ==
  [][\A p \in Tracked :
       (/\ obs'.op = "RecordFailure" /\ obs'.at = now /\ now' = now
        /\ settings' = settings /\ settings.enableLevelBlacklist
        /\ bl[p].exists /\ bl[p].blacklistedUntil = NULL
        /\ bl[p].lastRecoveredAt # NULL
        /\ bl'[p].blacklistedUntil # NULL)
       => bl'[p].blacklistLevel = 1]_vars

(***************************************************************************)
(* Totality and determinism of GetEffectiveModel.                          *)
(***************************************************************************)

\* C38: GetEffectiveModel is total: every call returns a model name and none
\* panics, also for a name that matches a wildcard key only because the
\* key's prefix and suffix overlap in it.
C38_GetEffectiveModelTotal ==
  obs.op = "GetEffectiveModel" =>
    \A n \in 1..Len(obs.results) :
      obs.results[n] # Panic /\ obs.results[n] \in Strings({"a", "b"}, 2 * MaxLen)

\* C39: GetEffectiveModel is deterministic: with the configuration and the
\* requested model fixed, the second call returns what the first returned,
\* also when several wildcard keys with different targets match.
C39_GetEffectiveModelDeterministic ==
  (obs.op = "GetEffectiveModel" /\ Len(obs.results) = 2
   /\ Panic \notin {obs.results[1], obs.results[2]})
  => obs.results[1] = obs.results[2]

(***************************************************************************)
(* Properties of the GeminiService provider list.                          *)
(***************************************************************************)

\* C40: after any sequence of AddProvider, DeleteProvider, DuplicateProvider
\* and CreateProviderFromPreset calls, no two providers of the list have the
\* same ID.
C40_GeminiIDsUnique ==
  \A i, j \in 1..Len(providers) :
    i # j => providers[i].id # providers[j].id

====
